---- MODULE Spec2Model ----
(***************************************************************************)
(* Model of Chef/pychef/src/ConcolicSession.cc: the naming protocol       *)
(* (MakeConcolicBuffer / DecodeArrayName), the marking operations          *)
(* (MakeConcolicInt, MakeConcolicSequence and the per-kind markers) and    *)
(* the assignment decoder (DecodeAssignment).                              *)
(*                                                                         *)
(* C strings and std::string are sequences of one-character strings.       *)
(* assert() is modelled as compiled in: a failed assertion aborts.         *)
(***************************************************************************)
EXTENDS Integers, Sequences, FiniteSets, TLC

(***************************************************************************)
(* Bounds of the model.                                                    *)
(***************************************************************************)
\* largest length of a marked string / unicode / container
MaxLen == 2
\* length of the long base name (long enough for snprintf to truncate)
LongLen == 250
\* number of DecodeAssignment calls in one decoding pass
MaxDecodes == 3
\* longest raw identifier given to DecodeArrayName
MaxRawLen == 4

(***************************************************************************)
(* Program constants.                                                      *)
(***************************************************************************)
\* static char obj_name[256]; snprintf(obj_name, 256, ...)
ObjNameSize == 256
\* sizeof(int32_t), the content size ConvertBufferValue requires for 'i'
SizeofInt32 == 4
\* std::string::npos, as a position no 1-based index takes
npos == 0

(***************************************************************************)
(* State.                                                                  *)
(***************************************************************************)
VARIABLES
    \* ---- build / session ----
    s2e_active,          \* s2e_version() != 0
    max_symbolic_size_,  \* ConcolicSession::max_symbolic_size_
    sizeof_long,         \* sizeof(long) == sizeof(Py_ssize_t) of the build
    sizeof_Py_UNICODE,   \* sizeof(Py_UNICODE) of the build (UCS2 / UCS4)
    \* ---- marking ----
    call,                \* the marking call being served, arguments as passed
    trace,               \* host and engine calls issued by that call, in order
    ret,                 \* what the call returned
    target,              \* the target object after the call
    \* ---- naming protocol ----
    codecIn,             \* (base_name, name, type) given to MakeConcolicBuffer,
                         \* or the raw identifier given to DecodeArrayName
    obj_name,            \* the identifier under test
    decoded,             \* DecodeArrayName's outcome on obj_name
    \* ---- assignment decoding ----
    assgndict,           \* the AssignmentTree
    latest,              \* per (key, qualifier): the identifier and bytes of
                         \* the most recent successful decode naming it
    ncalls,              \* number of DecodeAssignment calls made on the tree
    allOk,               \* every call so far returned 0
    decodeRet,           \* the latest DecodeAssignment call and its outcome
    \* ---- size policy ----
    policy               \* a direct CheckObjectSize / ConstrainObjectSize call:
                         \* its arguments and what it returned / issued

markVars  == <<call, trace, ret, target>>
codecVars == <<codecIn, obj_name, decoded>>
treeVars  == <<assgndict, latest, ncalls, allOk, decodeRet>>
buildVars == <<s2e_active, max_symbolic_size_, sizeof_long, sizeof_Py_UNICODE>>
policyVars == <<policy>>
vars == <<buildVars, markVars, codecVars, treeVars, policyVars>>

(***************************************************************************)
(* String helpers.                                                         *)
(***************************************************************************)
\* the first n characters of s (all of s when it is shorter)
Take(s, n) == SubSeq(s, 1, IF Len(s) < n THEN Len(s) ELSE n)

\* std::string::rfind(c): position of the last c, npos when there is none
RFindMissesLast(s, c) ==
    IF \E i \in 1..Len(s) : s[i] = c
    THEN CHOOSE i \in 1..Len(s) : s[i] = c /\ \A j \in 1..(i-1) : s[j] # c
    ELSE npos

RFind(s, c) ==
    IF \E i \in 1..Len(s) : s[i] = c
    THEN CHOOSE i \in 1..Len(s) : s[i] = c /\ \A j \in (i+1)..Len(s) : s[j] # c
    ELSE npos

\* n copies of the character c
Repeat(c, n) == [i \in 1..n |-> c]

\* the string literals of the code
sValue == <<"v", "a", "l", "u", "e">>
sSize  == <<"s", "i", "z", "e">>

(***************************************************************************)
(* NameCodec.                                                              *)
(***************************************************************************)
\* snprintf(obj_name, 256, "%s.%c#%s", base_name, type, name): at most 255
\* characters are stored, the rest is dropped
SnprintfNoTag(base_name, name, type) ==
    Take(base_name \o <<".">> \o name, ObjNameSize - 1)

Snprintf(base_name, name, type) ==
    Take(base_name \o <<".", type, "#">> \o name, ObjNameSize - 1)

DecodeOk(key, value, type) ==
    [status |-> "ok", assgn_key |-> key, assgn_value |-> value, assgn_type |-> type]

DecodeFail(why) ==
    [status |-> why, assgn_key |-> <<>>, assgn_value |-> <<>>, assgn_type |-> "b"]

DecodeArrayNameNoAssert(name) ==
    LET dot_pos == RFind(name, ".") IN
    IF dot_pos = npos
    THEN DecodeOk(name, <<>>, "b")
    ELSE LET key  == SubSeq(name, 1, dot_pos - 1)
             rest == SubSeq(name, dot_pos + 1, Len(name))
         IN  IF Len(rest) < 2 THEN DecodeFail("out_of_range")
             ELSE IF rest[2] = "#"
                  THEN DecodeOk(key, SubSeq(rest, 3, Len(rest)), rest[1])
                  ELSE DecodeOk(key, rest, "b")

\* DecodeArrayName with the out-parameters as DecodeAssignment initialises
\* them (key "", value "", type 'b').  status: "ok", "out_of_range" (the
\* exception std::string::at throws) or "assert" (assertion failure).
DecodeArrayName(name) ==
    LET dot_pos == RFind(name, ".") IN
    IF dot_pos = npos
    THEN DecodeOk(name, <<>>, "b")
    ELSE LET key  == SubSeq(name, 1, dot_pos - 1)
             rest == SubSeq(name, dot_pos + 1, Len(name))
         IN  IF Len(rest) < 2 THEN DecodeFail("out_of_range")
             ELSE IF rest[2] = "#"
                  THEN IF Len(rest) > 2
                       THEN DecodeOk(key, SubSeq(rest, 3, Len(rest)), rest[1])
                       ELSE DecodeFail("assert")
                  ELSE DecodeOk(key, rest, "b")

(***************************************************************************)
(* Engine and host calls, as entries of the trace.                         *)
(***************************************************************************)
Event(ev, buf, size, id, lhs, rel, rhs) ==
    [ev |-> ev, buf |-> buf, size |-> size, id |-> id,
     lhs |-> lhs, rel |-> rel, rhs |-> rhs]

\* a host call (allocation, copy, construction, release, reference count)
Host(ev, buf, size) == Event(ev, buf, size, <<>>, 0, "", 0)

\* s2e_make_concolic(buf, size, name)
s2e_make_concolic(buf, size, name) ==
    Event("s2e_make_concolic", buf, size, name, 0, "", 0)

\* s2e_assume(lhs rel rhs), buf names the field lhs was read from
s2e_assume(buf, lhs, rel, rhs) == Event("s2e_assume", buf, 0, <<>>, lhs, rel, rhs)

\* MakeConcolicBuffer: format the identifier, register the buffer under it
MakeConcolicBuffer(buf, size, base_name, name, type) ==
    s2e_make_concolic(buf, size, Snprintf(base_name, name, type))

IsEngineCall(e) == e.ev \in {"s2e_make_concolic", "s2e_assume"}

\* the truth value of the expression handed to s2e_assume
Holds(e) ==
    CASE e.rel = ">=" -> e.lhs >= e.rhs
      [] e.rel = "<=" -> e.lhs <= e.rhs
      [] e.rel = "<"  -> e.lhs < e.rhs
      [] OTHER        -> FALSE

(***************************************************************************)
(* SizeConstraintPolicy.                                                   *)
(***************************************************************************)
\* CheckObjectSize: aborted when assert(min_size >= 0) fails, else 0 or -1
CheckObjectSizeNoUpper(size, max_size, min_size) ==
    IF min_size < 0 THEN [aborted |-> TRUE, value |-> 0]
    ELSE IF max_size < 0 THEN [aborted |-> FALSE, value |-> 0]
    ELSE [aborted |-> FALSE, value |-> IF size >= min_size THEN 0 ELSE -1]

CheckObjectSizeZeroAsBound(size, max_size, min_size) ==
    IF min_size < 0 THEN [aborted |-> TRUE, value |-> 0]
    ELSE IF max_size < 0 THEN [aborted |-> FALSE, value |-> 0]
    ELSE [aborted |-> FALSE,
          value |-> IF size >= min_size /\ size <= max_size THEN 0 ELSE -1]

CheckObjectSizeNoFixed(size, max_size, min_size) ==
    IF min_size < 0 THEN [aborted |-> TRUE, value |-> 0]
    ELSE IF max_size = 0
         THEN [aborted |-> FALSE, value |-> IF size >= min_size THEN 0 ELSE -1]
         ELSE [aborted |-> FALSE,
               value |-> IF size >= min_size /\ size <= max_size THEN 0 ELSE -1]

CheckObjectSize(size, max_size, min_size) ==
    IF min_size < 0 THEN [aborted |-> TRUE, value |-> 0]
    ELSE IF max_size < 0 THEN [aborted |-> FALSE, value |-> 0]
    ELSE IF max_size = 0
         THEN [aborted |-> FALSE, value |-> IF size >= min_size THEN 0 ELSE -1]
         ELSE [aborted |-> FALSE,
               value |-> IF size >= min_size /\ size <= max_size THEN 0 ELSE -1]

\* ConstrainObjectSize: the assumptions it issues on the field buf, in order;
\* a failed assert(min_size >= 0) is the single entry "assert"
ConstrainObjectSizeMinFirst(buf, size, max_size, min_size) ==
    IF min_size < 0 THEN << Host("assert", buf, 0) >>
    ELSE << s2e_assume(buf, size, ">=", min_size) >>
         \o (IF max_size > 0 THEN << s2e_assume(buf, size, "<=", max_size) >>
                             ELSE << >>)

ConstrainObjectSizeUpperAtZero(buf, size, max_size, min_size) ==
    IF min_size < 0 THEN << Host("assert", buf, 0) >>
    ELSE (IF max_size >= 0 THEN << s2e_assume(buf, size, "<=", max_size) >>
                           ELSE << >>)
         \o << s2e_assume(buf, size, ">=", min_size) >>

ConstrainObjectSize(buf, size, max_size, min_size) ==
    IF min_size < 0 THEN << Host("assert", buf, 0) >>
    ELSE (IF max_size > 0 THEN << s2e_assume(buf, size, "<=", max_size) >>
                          ELSE << >>)
         \o << s2e_assume(buf, size, ">=", min_size) >>

(***************************************************************************)
(* Host values.                                                            *)
(***************************************************************************)
\* a host object: id tells objects apart, kind is the runtime type, ob_size
\* the length (ob_size / length / ma_used), data the bytes or code units,
\* ob_ival the value of an int, refcnt the reference count
Object(id, kind, ob_size, data, ob_ival, refcnt) ==
    [id |-> id, kind |-> kind, ob_size |-> ob_size, data |-> data,
     ob_ival |-> ob_ival, refcnt |-> refcnt]

NoObject == Object("none", "none", 0, <<>>, 0, 0)

\* what a call returns: an object, or NULL with the exception set
Returned(obj) == [status |-> "object", exc |-> "none", msg |-> "", obj |-> obj]
Raised(exc, msg) == [status |-> "NULL", exc |-> exc, msg |-> msg, obj |-> NoObject]
Aborted == [status |-> "abort", exc |-> "none", msg |-> "", obj |-> NoObject]
Idle == [status |-> "idle", exc |-> "none", msg |-> "", obj |-> NoObject]

\* outcome of a marking operation: the calls it issued, what it returned
\* and the target object as it leaves it
Outcome(tr, r, tgt) == [trace |-> tr, ret |-> r, target |-> tgt]

Py_INCREF(obj) == [obj EXCEPT !.refcnt = @ + 1]

(***************************************************************************)
(* ConcolicMarker.                                                         *)
(***************************************************************************)
MakeConcolicIntNoRangeCheck(tgt, name, max_value, min_value) ==
    IF ~s2e_active
    THEN Outcome(<< >>, Raised("RuntimeError", "Not in symbolic mode"), tgt)
    ELSE LET value == tgt.ob_ival IN
         Outcome(
             << MakeConcolicBuffer("value", sizeof_long, name, sValue, "i") >>
             \o (IF max_value >= min_value
                 THEN << s2e_assume("value", value, ">=", min_value),
                         s2e_assume("value", value, "<=", max_value) >>
                 ELSE << >>)
             \o << Host("PyInt_FromLong", "value", sizeof_long) >>,
             Returned(Object("new", "int", 0, << >>, value, 1)),
             tgt)

\* MakeConcolicInt; assert(PyInt_Check(target)) is the domain of tgt
MakeConcolicInt(tgt, name, max_value, min_value) ==
    IF ~s2e_active
    THEN Outcome(<< >>, Raised("RuntimeError", "Not in symbolic mode"), tgt)
    ELSE LET value == tgt.ob_ival IN
         IF max_value >= min_value /\ (value < min_value \/ value > max_value)
         THEN Outcome(<< >>,
                      Raised("ValueError", "Incompatible value constraints"), tgt)
         ELSE Outcome(
                 << MakeConcolicBuffer("value", sizeof_long, name, sValue, "i") >>
                 \o (IF max_value >= min_value
                     THEN << s2e_assume("value", value, ">=", min_value),
                             s2e_assume("value", value, "<=", max_value) >>
                     ELSE << >>)
                 \o << Host("PyInt_FromLong", "value", sizeof_long) >>,
                 Returned(Object("new", "int", 0, << >>, value, 1)),
                 tgt)

\* PyString_FromStringAndSize / PyUnicode_FromUnicode on the copied buffer:
\* a new object of the target's kind and length holding the copied elements
NewTextObject(tgt) == Object("new", tgt.kind, tgt.ob_size, tgt.data, 0, 1)

\* MakeConcolicString and MakeConcolicUnicode share their shape: type is the
\* kind tag, unit the size of one element of the buffer, alloc the name of
\* the constructor of the result.  mallocOk / newOk: whether PyMem_Malloc
\* and the constructor succeed.
MakeConcolicTextLeakOnFailure(tgt, name, max_size, min_size, type, unit, buf, alloc, mallocOk, newOk) ==
    LET chk      == CheckObjectSize(tgt.ob_size, max_size, min_size)
        buf_size == tgt.ob_size * unit
        result   == NewTextObject(tgt)
    IN
    IF chk.aborted THEN Outcome(<< Host("assert", "min_size", 0) >>, Aborted, tgt)
    ELSE IF chk.value < 0
    THEN Outcome(<< >>, Raised("ValueError", "Incompatible size constraints"), tgt)
    ELSE IF ~mallocOk
    THEN Outcome(<< Host("PyMem_Malloc failed", buf, buf_size) >>,
                 Raised("MemoryError", ""), tgt)
    ELSE LET begun == << Host("PyMem_Malloc", buf, buf_size),
                         Host("memcpy", buf, buf_size),
                         MakeConcolicBuffer(buf, buf_size, name, sValue, type) >>
         IN
         IF ~newOk
         THEN Outcome(begun \o << Host(alloc \o " failed", buf, tgt.ob_size) >>,
                      Raised("MemoryError", ""), tgt)
         ELSE Outcome(
                 begun
                 \o << Host(alloc, buf, tgt.ob_size) >>
                 \o (IF max_size >= 0
                     THEN << MakeConcolicBuffer("result.ob_size", sizeof_long,
                                                name, sSize, "l") >>
                          \o ConstrainObjectSize("result.ob_size", result.ob_size,
                                                 max_size, min_size)
                     ELSE << >>)
                 \o << Host("PyMem_Free", buf, 0) >>,
                 Returned(result), tgt)

MakeConcolicText(tgt, name, max_size, min_size, type, unit, buf, alloc, mallocOk, newOk) ==
    LET chk      == CheckObjectSize(tgt.ob_size, max_size, min_size)
        buf_size == tgt.ob_size * unit
        result   == NewTextObject(tgt)
    IN
    IF chk.aborted THEN Outcome(<< Host("assert", "min_size", 0) >>, Aborted, tgt)
    ELSE IF chk.value < 0
    THEN Outcome(<< >>, Raised("ValueError", "Incompatible size constraints"), tgt)
    ELSE IF ~mallocOk
    THEN Outcome(<< Host("PyMem_Malloc failed", buf, buf_size) >>,
                 Raised("MemoryError", ""), tgt)
    ELSE LET begun == << Host("PyMem_Malloc", buf, buf_size),
                         Host("memcpy", buf, buf_size),
                         MakeConcolicBuffer(buf, buf_size, name, sValue, type) >>
         IN
         IF ~newOk
         THEN Outcome(begun \o << Host(alloc \o " failed", buf, tgt.ob_size),
                                  Host("PyMem_Free", buf, 0) >>,
                      Raised("MemoryError", ""), tgt)
         ELSE Outcome(
                 begun
                 \o << Host(alloc, buf, tgt.ob_size) >>
                 \o (IF max_size >= 0
                     THEN << MakeConcolicBuffer("result.ob_size", sizeof_long,
                                                name, sSize, "l") >>
                          \o ConstrainObjectSize("result.ob_size", result.ob_size,
                                                 max_size, min_size)
                     ELSE << >>)
                 \o << Host("PyMem_Free", buf, 0) >>,
                 Returned(result), tgt)

MakeConcolicString(tgt, name, max_size, min_size, mallocOk, newOk) ==
    MakeConcolicText(tgt, name, max_size, min_size, "s", 1, "str_data",
                     "PyString_FromStringAndSize", mallocOk, newOk)

MakeConcolicUnicode(tgt, name, max_size, min_size, mallocOk, newOk) ==
    MakeConcolicText(tgt, name, max_size, min_size, "u", sizeof_Py_UNICODE,
                     "uni_data", "PyUnicode_FromUnicode", mallocOk, newOk)

MakeConcolicListNoIncref(tgt, name, max_size, min_size) ==
    LET chk == CheckObjectSize(tgt.ob_size, max_size, min_size) IN
    IF chk.aborted THEN Outcome(<< Host("assert", "min_size", 0) >>, Aborted, tgt)
    ELSE IF chk.value < 0
    THEN Outcome(<< >>, Raised("ValueError", "Incompatible size constraints"), tgt)
    ELSE Outcome(
            (IF max_size >= 0
             THEN << MakeConcolicBuffer("target.ob_size", sizeof_long,
                                        name, sSize, "l") >>
                  \o ConstrainObjectSize("target.ob_size", tgt.ob_size,
                                         max_size, min_size)
             ELSE << >>),
            Returned(tgt), tgt)

MakeConcolicList(tgt, name, max_size, min_size) ==
    LET chk == CheckObjectSize(tgt.ob_size, max_size, min_size) IN
    IF chk.aborted THEN Outcome(<< Host("assert", "min_size", 0) >>, Aborted, tgt)
    ELSE IF chk.value < 0
    THEN Outcome(<< >>, Raised("ValueError", "Incompatible size constraints"), tgt)
    ELSE Outcome(
            (IF max_size >= 0
             THEN << MakeConcolicBuffer("target.ob_size", sizeof_long,
                                        name, sSize, "l") >>
                  \o ConstrainObjectSize("target.ob_size", tgt.ob_size,
                                         max_size, min_size)
             ELSE << >>)
            \o << Host("Py_INCREF", "target", 0) >>,
            Returned(Py_INCREF(tgt)), Py_INCREF(tgt))

\* MakeConcolicDict and MakeConcolicTuple differ in the count field only
MakeConcolicCountNoUpper(tgt, name, field) ==
    Outcome(<< MakeConcolicBuffer(field, sizeof_long, name, sSize, "l"),
               s2e_assume(field, tgt.ob_size, ">=", 0),
               Host("Py_INCREF", "target", 0) >>,
            Returned(Py_INCREF(tgt)), Py_INCREF(tgt))

MakeConcolicCount(tgt, name, field) ==
    Outcome(<< MakeConcolicBuffer(field, sizeof_long, name, sSize, "l"),
               s2e_assume(field, tgt.ob_size, ">=", 0),
               s2e_assume(field, tgt.ob_size, "<", max_symbolic_size_),
               Host("Py_INCREF", "target", 0) >>,
            Returned(Py_INCREF(tgt)), Py_INCREF(tgt))

MakeConcolicDict(tgt, name) == MakeConcolicCount(tgt, name, "target.ma_used")

MakeConcolicTuple(tgt, name) == MakeConcolicCount(tgt, name, "target.ob_size")

DispatchNoneAsOther(tgt, name, max_size, min_size, mallocOk, newOk) ==
    CASE tgt.kind = "str" ->
            MakeConcolicString(tgt, name, max_size, min_size, mallocOk, newOk)
      [] tgt.kind = "unicode" ->
            MakeConcolicUnicode(tgt, name, max_size, min_size, mallocOk, newOk)
      [] tgt.kind = "list" -> MakeConcolicList(tgt, name, max_size, min_size)
      [] tgt.kind = "dict" -> MakeConcolicDict(tgt, name)
      [] tgt.kind = "tuple" -> MakeConcolicTuple(tgt, name)
      [] OTHER -> Outcome(<< >>, Raised("TypeError", "Unsupported type"), tgt)

\* the dispatch of MakeConcolicSequence on the runtime kind of the target
Dispatch(tgt, name, max_size, min_size, mallocOk, newOk) ==
    CASE tgt.kind = "None" ->
            Outcome(<< >>, Raised("ValueError", "Cannot make symbolic None"), tgt)
      [] tgt.kind = "str" ->
            MakeConcolicString(tgt, name, max_size, min_size, mallocOk, newOk)
      [] tgt.kind = "unicode" ->
            MakeConcolicUnicode(tgt, name, max_size, min_size, mallocOk, newOk)
      [] tgt.kind = "list" -> MakeConcolicList(tgt, name, max_size, min_size)
      [] tgt.kind = "dict" -> MakeConcolicDict(tgt, name)
      [] tgt.kind = "tuple" -> MakeConcolicTuple(tgt, name)
      [] OTHER -> Outcome(<< >>, Raised("TypeError", "Unsupported type"), tgt)

MakeConcolicSequenceMinLate(tgt, name, max_size, min_size, mallocOk, newOk) ==
    IF min_size < 0
    THEN Outcome(<< >>,
                 Raised("ValueError", "Minimum size cannot be negative"), tgt)
    ELSE IF ~s2e_active
    THEN Outcome(<< >>, Raised("RuntimeError", "Not in symbolic mode"), tgt)
    ELSE Dispatch(tgt, name, max_size, min_size, mallocOk, newOk)

MakeConcolicSequence(tgt, name, max_size, min_size, mallocOk, newOk) ==
    IF ~s2e_active
    THEN Outcome(<< >>, Raised("RuntimeError", "Not in symbolic mode"), tgt)
    ELSE IF min_size < 0
    THEN Outcome(<< >>,
                 Raised("ValueError", "Minimum size cannot be negative"), tgt)
    ELSE Dispatch(tgt, name, max_size, min_size, mallocOk, newOk)

(***************************************************************************)
(* AssignmentDecoder.                                                      *)
(***************************************************************************)
\* a byte as a signed char
SignedByte(b) == IF b >= 128 THEN b - 256 ELSE b

\* the bytes read as a little-endian signed integer: *((int32_t*)data),
\* *((Py_ssize_t*)data)
RECURSIVE LittleEndianSigned(_)
LittleEndianSigned(bytes) ==
    IF Len(bytes) = 0 THEN 0
    ELSE IF Len(bytes) = 1 THEN SignedByte(bytes[1])
    ELSE LittleEndianSigned(Tail(bytes)) * 256 + Head(bytes)

\* (Py_UNICODE *)data read for n code units, each unit held as its bytes
CodeUnits(bytes, n) ==
    [k \in 1..n |-> SubSeq(bytes, (k - 1) * sizeof_Py_UNICODE + 1,
                           k * sizeof_Py_UNICODE)]

Typed(kind, ival, data) == [kind |-> kind, ival |-> ival, data |-> data]

Converted(v) == [status |-> "ok", value |-> v]
NotConverted(why) == [status |-> why, value |-> Typed("none", 0, << >>)]

ConvertBufferValueDefaultNull(value, assgn_type, allocOk) ==
    CASE assgn_type = "i" ->
            IF Len(value) # SizeofInt32 THEN NotConverted("assert")
            ELSE IF ~allocOk THEN NotConverted("NULL")
            ELSE Converted(Typed("int", LittleEndianSigned(value), << >>))
      [] assgn_type = "l" ->
            IF Len(value) # sizeof_long THEN NotConverted("assert")
            ELSE IF ~allocOk THEN NotConverted("NULL")
            ELSE Converted(Typed("int", LittleEndianSigned(value), << >>))
      [] assgn_type = "s" ->
            IF ~allocOk THEN NotConverted("NULL")
            ELSE Converted(Typed("str", 0, value))
      [] assgn_type = "u" ->
            IF ~allocOk THEN NotConverted("NULL")
            ELSE Converted(Typed("unicode", 0,
                                 CodeUnits(value, Len(value) \div sizeof_Py_UNICODE)))
      [] assgn_type = "b" ->
            IF ~allocOk THEN NotConverted("NULL")
            ELSE Converted(Typed("bytearray", 0, value))
      [] OTHER -> NotConverted("NULL")

ConvertBufferValueBytesAsStr(value, assgn_type, allocOk) ==
    CASE assgn_type = "i" ->
            IF Len(value) # SizeofInt32 THEN NotConverted("assert")
            ELSE IF ~allocOk THEN NotConverted("NULL")
            ELSE Converted(Typed("int", LittleEndianSigned(value), << >>))
      [] assgn_type = "l" ->
            IF Len(value) # sizeof_long THEN NotConverted("assert")
            ELSE IF ~allocOk THEN NotConverted("NULL")
            ELSE Converted(Typed("int", LittleEndianSigned(value), << >>))
      [] assgn_type = "s" ->
            IF ~allocOk THEN NotConverted("NULL")
            ELSE Converted(Typed("str", 0, value))
      [] assgn_type = "u" ->
            IF ~allocOk THEN NotConverted("NULL")
            ELSE Converted(Typed("unicode", 0,
                                 CodeUnits(value, Len(value) \div sizeof_Py_UNICODE)))
      [] assgn_type = "b" ->
            IF ~allocOk THEN NotConverted("NULL")
            ELSE Converted(Typed("str", 0, value))
      [] OTHER -> NotConverted("assert")

\* ConvertBufferValue; allocOk: whether the constructor of the value succeeds
ConvertBufferValue(value, assgn_type, allocOk) ==
    CASE assgn_type = "i" ->
            IF Len(value) # SizeofInt32 THEN NotConverted("assert")
            ELSE IF ~allocOk THEN NotConverted("NULL")
            ELSE Converted(Typed("int", LittleEndianSigned(value), << >>))
      [] assgn_type = "l" ->
            IF Len(value) # sizeof_long THEN NotConverted("assert")
            ELSE IF ~allocOk THEN NotConverted("NULL")
            ELSE Converted(Typed("int", LittleEndianSigned(value), << >>))
      [] assgn_type = "s" ->
            IF ~allocOk THEN NotConverted("NULL")
            ELSE Converted(Typed("str", 0, value))
      [] assgn_type = "u" ->
            IF ~allocOk THEN NotConverted("NULL")
            ELSE Converted(Typed("unicode", 0,
                                 CodeUnits(value, Len(value) \div sizeof_Py_UNICODE)))
      [] assgn_type = "b" ->
            IF ~allocOk THEN NotConverted("NULL")
            ELSE Converted(Typed("bytearray", 0, value))
      [] OTHER -> NotConverted("assert")

\* PyDict_SetItem(d, k, v) on a mapping held as a function
PyDict_SetItem(d, k, v) == [x \in DOMAIN d \cup {k} |-> IF x = k THEN v ELSE d[x]]

EmptyDict == [x \in {} |-> 0]

Decoded(status, tree) == [status |-> status, tree |-> tree]

\* DecodeAssignment on the tree assgndict.  status: "0" and "-1" are the
\* values returned, "assert" and "out_of_range" the fatal exits.
\* fail names the host call that fails in this run: "key"
\* (PyString_FromString of the key or qualifier, or the insertion of a new
\* sub-mapping), "value" (the constructor in ConvertBufferValue), "set" (the
\* final PyDict_SetItem) or "none".
DecodeAssignmentFreshDict(tree, name, value_buff, fail) ==
    LET nm == DecodeArrayName(name) IN
    IF nm.status # "ok" THEN Decoded(nm.status, tree)
    ELSE IF fail = "key" THEN Decoded("-1", tree)
    ELSE LET value == ConvertBufferValue(value_buff, nm.assgn_type, fail # "value") IN
         IF value.status = "assert" THEN Decoded("assert", tree)
         ELSE IF value.status = "NULL" THEN Decoded("-1", tree)
         ELSE LET withKey == PyDict_SetItem(tree, nm.assgn_key, EmptyDict)
              IN  IF fail = "set" THEN Decoded("-1", withKey)
                  ELSE Decoded("0",
                          PyDict_SetItem(withKey, nm.assgn_key,
                              PyDict_SetItem(withKey[nm.assgn_key],
                                             nm.assgn_value, value.value)))

DecodeAssignment(tree, name, value_buff, fail) ==
    LET nm == DecodeArrayName(name) IN
    IF nm.status # "ok" THEN Decoded(nm.status, tree)
    ELSE IF fail = "key" THEN Decoded("-1", tree)
    ELSE LET value == ConvertBufferValue(value_buff, nm.assgn_type, fail # "value") IN
         IF value.status = "assert" THEN Decoded("assert", tree)
         ELSE IF value.status = "NULL" THEN Decoded("-1", tree)
         ELSE LET has_key == nm.assgn_key \in DOMAIN tree
                  withKey == IF has_key THEN tree
                             ELSE PyDict_SetItem(tree, nm.assgn_key, EmptyDict)
              IN  IF fail = "set" THEN Decoded("-1", withKey)
                  ELSE Decoded("0",
                          PyDict_SetItem(withKey, nm.assgn_key,
                              PyDict_SetItem(withKey[nm.assgn_key],
                                             nm.assgn_value, value.value)))

(***************************************************************************)
(* Inputs.                                                                 *)
(***************************************************************************)
\* base names: short, dotted, and one long enough to overflow obj_name
Names == { <<"a">>, <<"r", ".", "b">>, Repeat("a", LongLen) }

Tags == {"i", "l", "s", "u", "b"}

SizeArgs == (-1)..(MaxLen + 1)
IntValues == (-2)..(MaxLen + 2)
SymbolicSizes == {1, MaxLen + 1}

IntTargets == { Object("target", "int", 0, << >>, v, 1) : v \in IntValues }

SeqTargets ==
    { Object("target", k, 0, << >>, 0, 1) : k \in {"None", "float"} }
    \cup { Object("target", k, n, Repeat("h", n), 0, 1) :
               k \in {"str", "unicode"}, n \in 0..MaxLen }
    \cup { Object("target", k, n, << >>, 0, 1) :
               k \in {"list", "dict", "tuple"}, n \in 0..MaxLen }

\* no direct call of the size policy made
NoPolicy == [fn |-> "none", size |-> 0, max |-> 0, min |-> 0,
             check |-> [aborted |-> FALSE, value |-> 0], constrain |-> << >>]

NoCall == [fn |-> "none", target |-> NoObject, name |-> << >>,
           max |-> 0, min |-> 0]

(***************************************************************************)
(* Initial state: a build, a session, nothing called yet.                  *)
(***************************************************************************)
Init ==
    /\ s2e_active \in BOOLEAN
    /\ max_symbolic_size_ \in SymbolicSizes
    /\ sizeof_long \in {4, 8}
    /\ sizeof_Py_UNICODE \in {2, 4}
    /\ call = NoCall
    /\ trace = << >>
    /\ ret = Idle
    /\ target = NoObject
    /\ codecIn = [fn |-> "none", base_name |-> << >>, name |-> << >>, type |-> "b"]
    /\ obj_name = << >>
    /\ decoded = DecodeArrayName(<< >>)
    /\ assgndict = EmptyDict
    /\ latest = EmptyDict
    /\ ncalls = 0
    /\ allOk = TRUE
    /\ decodeRet = [status |-> "idle", replaced |-> FALSE]
    /\ policy = NoPolicy

(***************************************************************************)
(* Marking: one action per entry point, the whole call in one step.        *)
(***************************************************************************)
Serve(fn, tgt, name, max, min, out) ==
    /\ call' = [fn |-> fn, target |-> tgt, name |-> name, max |-> max, min |-> min]
    /\ trace' = out.trace
    /\ ret' = out.ret
    /\ target' = out.target
    /\ UNCHANGED <<buildVars, policyVars, codecVars, treeVars>>

DoMakeConcolicInt ==
    /\ call.fn = "none"
    /\ \E tgt \in IntTargets, name \in Names, max \in SizeArgs, min \in SizeArgs :
          Serve("MakeConcolicInt", tgt, name, max, min,
                MakeConcolicInt(tgt, name, max, min))

DoMakeConcolicSequence ==
    /\ call.fn = "none"
    /\ \E tgt \in SeqTargets, name \in Names, max \in SizeArgs, min \in SizeArgs,
          mallocOk \in BOOLEAN, newOk \in BOOLEAN :
          Serve("MakeConcolicSequence", tgt, name, max, min,
                MakeConcolicSequence(tgt, name, max, min, mallocOk, newOk))

\* the caller takes the result; the next call starts with an empty trace
CallerReturns ==
    /\ call.fn # "none"
    /\ call' = NoCall
    /\ trace' = << >>
    /\ ret' = Idle
    /\ target' = NoObject
    /\ UNCHANGED <<buildVars, policyVars, codecVars, treeVars>>

Next == DoMakeConcolicInt \/ DoMakeConcolicSequence \/ CallerReturns

Spec == Init /\ [][Next]_vars

(***************************************************************************)
(* Naming protocol on its own: identifiers built by MakeConcolicBuffer's   *)
(* format, and raw identifiers, are handed to DecodeArrayName.             *)
(***************************************************************************)
Bases == Names \cup { << >>, <<"a", "#">> }

Qualifiers == { sValue, sSize, << >>, <<"q">>,
                <<"x", ".", "y">>, <<"x", ".", "y", "z">> }

RawAlphabet == {"a", "i", ".", "#"}

RawNames == UNION { [1..n -> RawAlphabet] : n \in 0..MaxRawLen }

\* MakeConcolicBuffer's identifier for (base_name, name, type), then decoded
EncodeThenDecode ==
    \E base_name \in Bases, name \in Qualifiers, type \in Tags :
        /\ codecIn.fn = "none"
        /\ codecIn' = [fn |-> "MakeConcolicBuffer", base_name |-> base_name,
                       name |-> name, type |-> type]
        /\ obj_name' = Snprintf(base_name, name, type)
        /\ decoded' = DecodeArrayName(Snprintf(base_name, name, type))
        /\ UNCHANGED <<buildVars, policyVars, markVars, treeVars>>

\* an identifier as the engine hands it back, decoded
DecodeRaw ==
    \E id \in RawNames :
        /\ codecIn.fn = "none"
        /\ codecIn' = [fn |-> "DecodeArrayName", base_name |-> << >>,
                       name |-> << >>, type |-> "b"]
        /\ obj_name' = id
        /\ decoded' = DecodeArrayName(id)
        /\ UNCHANGED <<buildVars, policyVars, markVars, treeVars>>

CodecNext == EncodeThenDecode \/ DecodeRaw

CodecSpec == Init /\ [][CodecNext]_vars

(***************************************************************************)
(* A decoding pass: DecodeAssignment called once per identifier of an      *)
(* assignment, on one tree.                                                *)
(***************************************************************************)
\* identifiers of an assignment, each with the (key, qualifier, tag) it
\* names under the protocol
Entry(id, key, qualifier, tag) ==
    [id |-> id, key |-> key, qualifier |-> qualifier, tag |-> tag]

DecodeEntries ==
    { Entry(<<"a", ".", "i", "#", "x">>, <<"a">>, <<"x">>, "i"),
      Entry(<<"a", ".", "i", "#", "y">>, <<"a">>, <<"y">>, "i"),
      Entry(<<"a", ".", "l", "#", "x">>, <<"a">>, <<"x">>, "l"),
      Entry(<<"r", ".", "b", ".", "s", "#", "x">>, <<"r", ".", "b">>, <<"x">>, "s"),
      Entry(<<"a", ".", "u", "#", "y">>, <<"a">>, <<"y">>, "u"),
      Entry(<<"a", ".", "x", "y">>, <<"a">>, <<"x", "y">>, "b"),
      Entry(<<"a">>, <<"a">>, << >>, "b"),
      Entry(<<"a", ".", "z", "#", "x">>, <<"a">>, <<"x">>, "z"),
      Entry(<<"a", ".", "i", "#">>, <<"a">>, << >>, "i"),
      Entry(<<"a", ".", "x">>, <<"a">>, <<"x">>, "b") }

DecodeBuffers ==
    { <<7, 0, 0, 0>>, <<245, 255, 255, 255>>,
      <<9, 0, 0, 0, 0, 0, 0, 0>>, <<1, 2, 3>> }

Failures == {"none", "key", "value", "set"}

HasPair(tree, key, qualifier) ==
    key \in DOMAIN tree /\ qualifier \in DOMAIN tree[key]

DoDecodeAssignment ==
    /\ ncalls < MaxDecodes
    /\ decodeRet.status \notin {"assert", "out_of_range"}
    /\ \E e \in DecodeEntries, value_buff \in DecodeBuffers, fail \in Failures :
          LET out == DecodeAssignment(assgndict, e.id, value_buff, fail)
              pair == <<e.key, e.qualifier>>
          IN  /\ assgndict' = out.tree
              /\ ncalls' = ncalls + 1
              /\ allOk' = (allOk /\ out.status = "0")
              /\ latest' = IF out.status = "0"
                           THEN (pair :> [tag |-> e.tag, value_buff |-> value_buff])
                                @@ latest
                           ELSE latest
              /\ decodeRet' =
                    [status |-> out.status,
                     replaced |-> /\ out.status = "0"
                                  /\ HasPair(assgndict, e.key, e.qualifier)
                                  /\ assgndict[e.key][e.qualifier]
                                        # out.tree[e.key][e.qualifier]]
              /\ UNCHANGED <<buildVars, policyVars, markVars, codecVars>>

\* the caller starts a new pass on a new, empty tree
NewTree ==
    /\ ncalls > 0
    /\ assgndict' = EmptyDict
    /\ latest' = EmptyDict
    /\ ncalls' = 0
    /\ allOk' = TRUE
    /\ decodeRet' = [status |-> "idle", replaced |-> FALSE]
    /\ UNCHANGED <<buildVars, policyVars, markVars, codecVars>>

DecodeNext == DoDecodeAssignment \/ NewTree

\* decoding reads neither the engine flag nor the session's container limit
DecodeInit == Init /\ ~s2e_active /\ max_symbolic_size_ = 1

DecodeSpec == DecodeInit /\ [][DecodeNext]_vars

(***************************************************************************)
(* One DecodeAssignment call on a tree that already holds an entry, for    *)
(* every raw identifier.                                                   *)
(***************************************************************************)
\* the tree after decoding ("a.i#x", bytes of 7) into an empty tree
StartTree ==
    DecodeAssignment(EmptyDict, <<"a", ".", "i", "#", "x">>, <<7, 0, 0, 0>>,
                     "none").tree

DecodeRawIntoTree ==
    /\ codecIn.fn = "none"
    /\ \E id \in RawNames, value_buff \in DecodeBuffers, fail \in Failures,
          tree \in {StartTree} :
      \E out \in {DecodeAssignment(tree, id, value_buff, fail)} :
        /\ codecIn' = [fn |-> "DecodeAssignment", base_name |-> << >>,
                       name |-> << >>, type |-> "b",
                       value_buff |-> value_buff, fail |-> fail,
                       tree |-> tree]
        /\ obj_name' = id
        /\ decoded' = DecodeArrayName(id)
        /\ assgndict' = out.tree
        /\ decodeRet' = [status |-> out.status, replaced |-> FALSE]
        /\ ncalls' = 1
        /\ allOk' = (out.status = "0")
        /\ UNCHANGED <<buildVars, policyVars, markVars, latest>>

RawDecodeSpec == DecodeInit /\ [][DecodeRawIntoTree]_vars

(***************************************************************************)
(* The size policy on its own: CheckObjectSize and ConstrainObjectSize     *)
(* called once with every size, max_size and min_size of the bounds.       *)
(***************************************************************************)
\* Py_ssize_t size argument: the length of an object
Sizes == 0..(MaxLen + 2)

DoCheckObjectSize ==
    /\ policy.fn = "none"
    /\ \E size \in Sizes, max_size \in SizeArgs, min_size \in SizeArgs :
          policy' = [fn |-> "CheckObjectSize", size |-> size,
                     max |-> max_size, min |-> min_size,
                     check |-> CheckObjectSize(size, max_size, min_size),
                     constrain |-> << >>]
    /\ UNCHANGED <<buildVars, markVars, codecVars, treeVars>>

DoConstrainObjectSize ==
    /\ policy.fn = "none"
    /\ \E size \in Sizes, max_size \in SizeArgs, min_size \in SizeArgs :
          policy' = [fn |-> "ConstrainObjectSize", size |-> size,
                     max |-> max_size, min |-> min_size,
                     check |-> [aborted |-> min_size < 0, value |-> 0],
                     constrain |-> ConstrainObjectSize("size", size,
                                                       max_size, min_size)]
    /\ UNCHANGED <<buildVars, markVars, codecVars, treeVars>>

PolicyNext == DoCheckObjectSize \/ DoConstrainObjectSize

PolicySpec == Init /\ [][PolicyNext]_vars

(***************************************************************************)
(* Marker and decoder together: a buffer a marking call registered comes   *)
(* back from the engine as its identifier and as many bytes as were        *)
(* registered, and is handed to DecodeAssignment.                          *)
(***************************************************************************)
\* the n bytes of the integer v in memory (little endian, two's complement)
RECURSIVE Bytes(_, _)
Bytes(v, n) ==
    IF n = 0 THEN << >>
    ELSE << v % 256 >> \o Bytes((v - (v % 256)) \div 256, n - 1)

\* the bytes of one Py_UNICODE holding the character c
UnitBytes(c) == << c >> \o Repeat("NUL", sizeof_Py_UNICODE - 1)

\* the bytes of the Py_UNICODE buffer holding the characters data
RECURSIVE UnicodeBytes(_)
UnicodeBytes(data) ==
    IF Len(data) = 0 THEN << >>
    ELSE UnitBytes(Head(data)) \o UnicodeBytes(Tail(data))

\* the concrete contents of the buffer the registration e covers
BufferBytes(e) ==
    CASE e.buf = "value"    -> Bytes(call.target.ob_ival, e.size)
      [] e.buf = "str_data" -> call.target.data
      [] e.buf = "uni_data" -> UnicodeBytes(call.target.data)
      [] OTHER              -> Bytes(call.target.ob_size, e.size)

DoReplay ==
    /\ call.fn # "none"
    /\ codecIn.fn = "none"
    /\ \E i \in { k \in DOMAIN trace : trace[k].ev = "s2e_make_concolic" } :
        \E value_buff \in {BufferBytes(trace[i])} :
        \E out \in {DecodeAssignment(EmptyDict, trace[i].id, value_buff, "none")} :
          /\ codecIn' = [fn |-> "Replay", base_name |-> call.name,
                         name |-> << >>, type |-> "b",
                         value_buff |-> value_buff, fail |-> "none",
                         tree |-> EmptyDict, reg |-> trace[i]]
          /\ obj_name' = trace[i].id
          /\ decoded' = DecodeArrayName(trace[i].id)
          /\ assgndict' = out.tree
          /\ decodeRet' = [status |-> out.status, replaced |-> FALSE]
          /\ ncalls' = 1
          /\ allOk' = (out.status = "0")
          /\ UNCHANGED <<buildVars, policyVars, markVars, latest>>

ReplayNext == DoMakeConcolicInt \/ DoMakeConcolicSequence \/ DoReplay

ReplaySpec == Init /\ [][ReplayNext]_vars

(***************************************************************************)
(* Properties.                                                             *)
(***************************************************************************)
Range(f) == { f[x] : x \in DOMAIN f }

EngineCalls == { i \in DOMAIN trace : IsEngineCall(trace[i]) }

Assumes == { i \in DOMAIN trace : trace[i].ev = "s2e_assume" }

Registrations == { i \in DOMAIN trace : trace[i].ev = "s2e_make_concolic" }

\* "<base>.<tag>#<qualifier>" in full
FullName(base, tag, qualifier) == base \o <<".", tag, "#">> \o qualifier

\* position of the last '.' of a string that has one
LastDot(s) == CHOOSE i \in 1..Len(s) :
                 s[i] = "." /\ \A j \in 1..Len(s) : s[j] = "." => j <= i

InSequence == call.fn = "MakeConcolicSequence"
InInt == call.fn = "MakeConcolicInt"

\* ---- C1 ----
\* C1 as stated: for every base, qualifier and tag, decoding the identifier
\* MakeConcolicBuffer builds gives back exactly (base, qualifier, tag).
C1_RoundTripAll ==
    codecIn.fn = "MakeConcolicBuffer"
        => decoded = DecodeOk(codecIn.base_name, codecIn.name, codecIn.type)

\* C1 amended: the round trip holds for every base, every tag and every
\* qualifier that is non-empty and has no '.', provided the full string
\* "<base>.<tag>#<qualifier>" is at most 255 bytes.
C1_RoundTrip ==
    ( /\ codecIn.fn = "MakeConcolicBuffer"
      /\ codecIn.name # << >>
      /\ "." \notin Range(codecIn.name)
      /\ Len(FullName(codecIn.base_name, codecIn.type, codecIn.name))
            <= ObjNameSize - 1 )
        => decoded = DecodeOk(codecIn.base_name, codecIn.name, codecIn.type)

C1_Witness ==
    /\ codecIn.fn = "MakeConcolicBuffer"
    /\ codecIn.base_name = <<"r", ".", "b">>
    /\ codecIn.name = sValue
    /\ codecIn.type = "s"
    /\ obj_name = <<"r", ".", "b", ".", "s", "#", "v", "a", "l", "u", "e">>
    /\ decoded = DecodeOk(<<"r", ".", "b">>, sValue, "s")

\* ---- C2 ----
\* C2: a marking call that has issued an engine call (s2e_make_concolic or
\* s2e_assume) returns an object; every failure has issued no engine call.
C2_NoAbortMidWay ==
    (call.fn # "none" /\ EngineCalls # {}) => ret.status = "object"

\* ---- C3 ----
\* C3 as stated: when a string, unicode or list marking issues both size
\* assumptions, assume(size >= min) comes before assume(size <= max).
C3_MinBeforeMax ==
    InSequence =>
        \A i, j \in Assumes :
            (trace[i].rel = ">=" /\ trace[j].rel = "<=") => i < j

\* C3 amended: in a string, unicode or list marking with max > 0 both size
\* assumptions are issued, assume(size <= max) first, assume(size >= min)
\* second.
C3_MaxBeforeMin ==
    ( /\ InSequence
      /\ call.target.kind \in {"str", "unicode", "list"}
      /\ call.max > 0
      /\ ret.status = "object" )
        => /\ \E i, j \in Assumes :
                /\ i < j
                /\ trace[i].rel = "<=" /\ trace[i].rhs = call.max
                /\ trace[j].rel = ">=" /\ trace[j].rhs = call.min
                /\ trace[i].lhs = call.target.ob_size
                /\ trace[j].lhs = call.target.ob_size
           /\ \A i, j \in Assumes :
                (trace[i].rel = "<=" /\ trace[j].rel = ">=") => i < j

C3_Witness ==
    /\ InSequence
    /\ call.target.kind = "str"
    /\ call.target.ob_size = 2
    /\ call.name = <<"r", ".", "b">>
    /\ call.min = 1
    /\ call.max = 3
    /\ ret.status = "object"
    /\ Cardinality(Assumes) = 2

C5_IntRangePolicy ==
    (s2e_active /\ InInt)
        => /\ ( /\ call.min <= call.max
                /\ ( \/ call.target.ob_ival < call.min
                     \/ call.target.ob_ival > call.max ) )
                => /\ ret = Raised("ValueError", "Incompatible value constraints")
                   /\ EngineCalls = {}
           /\ call.min > call.max
                => /\ ret.status = "object"
                   /\ ret.obj.ob_ival = call.target.ob_ival
                   /\ Cardinality(Registrations) = 1
                   /\ Assumes = {}

C5_Witness ==
    /\ s2e_active
    /\ InInt
    /\ call.min = 2
    /\ call.max = 0
    /\ call.target.ob_ival = -2
    /\ ret.status = "object"
    /\ Registrations # {}

\* ---- C6 ----
\* C6: with the engine active, MakeConcolicSequence with min < 0 fails with
\* ValueError and no engine call; and a string, unicode or list whose
\* length fails the size check (max >= 0 and length < min, or max > 0 and
\* length > max) fails with ValueError and no engine call.
C6_SizeValidatedFirst ==
    (s2e_active /\ InSequence)
        => /\ call.min < 0
                => /\ ret = Raised("ValueError", "Minimum size cannot be negative")
                   /\ EngineCalls = {}
           /\ ( /\ call.min >= 0
                /\ call.target.kind \in {"str", "unicode", "list"}
                /\ call.max >= 0
                /\ ( \/ call.target.ob_size < call.min
                     \/ (call.max > 0 /\ call.target.ob_size > call.max) ) )
                => /\ ret = Raised("ValueError", "Incompatible size constraints")
                   /\ EngineCalls = {}

C6_Witness ==
    /\ s2e_active
    /\ InSequence
    /\ call.target.kind = "unicode"
    /\ call.target.ob_size = 2
    /\ call.max = 1
    /\ call.min = 0
    /\ ret.exc = "ValueError"
    /\ trace = << >>

\* ---- C7 ----
CountConstrained(id) ==
    /\ \E i \in Registrations :
          /\ trace[i].id = id
          /\ trace[i].size = sizeof_long
          /\ trace[i].buf = IF call.target.kind = "dict" THEN "target.ma_used"
                                                         ELSE "target.ob_size"
    /\ \E i \in Assumes :
          /\ trace[i].lhs = call.target.ob_size
          /\ trace[i].rel = ">=" /\ trace[i].rhs = 0
    /\ \E i \in Assumes :
          /\ trace[i].lhs = call.target.ob_size
          /\ trace[i].rel = "<" /\ trace[i].rhs = max_symbolic_size_

\* C7 as stated: with the engine active every marking of a mapping or tuple
\* through MakeConcolicSequence, whatever max and min, registers the count
\* under "<name>.l#size" and issues assume(count >= 0) and
\* assume(count < max_symbolic_size_).
C7_AlwaysConstrained ==
    (s2e_active /\ InSequence /\ call.target.kind \in {"dict", "tuple"})
        => CountConstrained(FullName(call.name, "l", sSize))

\* C7 amended: the same for every max and every min >= 0, the identifier
\* being "<name>.l#size" as MakeConcolicBuffer stores it, that is its first
\* 255 bytes.
C7_ConstrainedWhenMinNonNegative ==
    ( /\ s2e_active /\ InSequence
      /\ call.target.kind \in {"dict", "tuple"}
      /\ call.min >= 0 )
        => /\ CountConstrained(Take(FullName(call.name, "l", sSize),
                                    ObjNameSize - 1))
           /\ ret.status = "object"

C7_Witness ==
    /\ s2e_active
    /\ InSequence
    /\ call.target.kind = "dict"
    /\ call.target.ob_size = 0
    /\ call.max = -1
    /\ call.min = 2
    /\ call.name = <<"a">>
    /\ ret.status = "object"
    /\ Cardinality(Assumes) = 2

\* ---- C8 ----
\* C8 as stated: with the engine active and min >= 0 every target outside
\* {str, unicode, list, dict, tuple}, None included, fails with the one
\* error kind of unsupported types (TypeError), which is not the kind of a
\* constraint error (ValueError), and no engine call is issued.
C8_NoneIsUnsupportedType ==
    ( /\ s2e_active /\ InSequence /\ call.min >= 0
      /\ call.target.kind \notin {"str", "unicode", "list", "dict", "tuple"} )
        => /\ ret.status = "NULL"
           /\ ret.exc = "TypeError"
           /\ EngineCalls = {}

\* C8 amended: None fails with ValueError ("Cannot make symbolic None"), the
\* exception class of the constraint errors; every other unsupported kind
\* fails with TypeError ("Unsupported type"); neither issues an engine call.
C8_NoneIsValueError ==
    ( /\ s2e_active /\ InSequence /\ call.min >= 0
      /\ call.target.kind \notin {"str", "unicode", "list", "dict", "tuple"} )
        => /\ ret = IF call.target.kind = "None"
                    THEN Raised("ValueError", "Cannot make symbolic None")
                    ELSE Raised("TypeError", "Unsupported type")
           /\ EngineCalls = {}

C8_Witness ==
    /\ s2e_active
    /\ InSequence
    /\ call.min >= 0
    /\ call.target.kind = "None"
    /\ ret.exc = "ValueError"
    /\ trace = << >>

\* ---- C9 ----
\* C9: after successful DecodeAssignment calls only, the tree holds exactly
\* the (key, qualifier) pairs that were decoded, each with the typed
\* conversion of the bytes of the most recent decode naming it.
C9_LastWriteWins ==
    allOk =>
        /\ DOMAIN assgndict = { p[1] : p \in DOMAIN latest }
        /\ \A k \in DOMAIN assgndict :
              DOMAIN assgndict[k] = { p[2] : p \in { q \in DOMAIN latest : q[1] = k } }
        /\ \A p \in DOMAIN latest :
              /\ HasPair(assgndict, p[1], p[2])
              /\ assgndict[p[1]][p[2]]
                   = ConvertBufferValue(latest[p].value_buff, latest[p].tag, TRUE).value

C9_Witness ==
    /\ allOk
    /\ ncalls = 3
    /\ decodeRet.replaced
    /\ HasPair(assgndict, <<"a">>, <<"x">>)
    /\ HasPair(assgndict, <<"a">>, <<"y">>)
    /\ assgndict[<<"a">>][<<"x">>] = Typed("int", -11, << >>)
    /\ assgndict[<<"a">>][<<"y">>] = Typed("int", 7, << >>)

\* ---- C10 ----
\* C10: for every identifier with a '.', whenever the remainder after the
\* last '.' does not have '#' as its second character (remainders of 0 and
\* 1 characters included), decoding gives key = the part before the last
\* '.', qualifier = the whole remainder, tag 'b'.
C10_TagDefault ==
    ( /\ codecIn.fn # "none"
      /\ "." \in Range(obj_name)
      /\ LET rest == SubSeq(obj_name, LastDot(obj_name) + 1, Len(obj_name))
         IN  ~(Len(rest) >= 2 /\ rest[2] = "#") )
        => decoded = DecodeOk(SubSeq(obj_name, 1, LastDot(obj_name) - 1),
                              SubSeq(obj_name, LastDot(obj_name) + 1, Len(obj_name)),
                              "b")

\* the remainder of an identifier after its last '.'
Remainder(s) == SubSeq(s, LastDot(s) + 1, Len(s))

InDecode == codecIn.fn = "DecodeAssignment"

\* ---- C11 ----
\* C11: decoding an identifier whose remainder after the last '.' is one
\* character followed by '#' and nothing more fails the assertion, for every
\* content and whatever host call would fail: no (key, qualifier, tag) is
\* produced and the tree is as it was.
C11_EmptyQualifierFatal ==
    ( /\ InDecode
      /\ "." \in Range(obj_name)
      /\ Len(Remainder(obj_name)) = 2
      /\ Remainder(obj_name)[2] = "#" )
        => /\ decoded.status = "assert"
           /\ decodeRet.status = "assert"
           /\ assgndict = codecIn.tree

C11_Witness ==
    /\ InDecode
    /\ obj_name = <<"a", ".", "i", "#">>
    /\ codecIn.value_buff = <<7, 0, 0, 0>>
    /\ codecIn.fail = "none"
    /\ decodeRet.status = "assert"
    /\ assgndict = StartTree

\* ---- C12 ----
\* C12: every identifier a marking call hands to the engine is the complete
\* string "<name>.<tag>#<qualifier>" and is at most 255 bytes long (a name
\* too long for that is refused, never registered cut short).
C12_NoTruncation ==
    \A i \in Registrations :
        /\ Len(trace[i].id) <= ObjNameSize - 1
        /\ \E t \in Tags, q \in {sValue, sSize} :
              trace[i].id = FullName(call.name, t, q)

\* the engine calls of the trace, in order
EngineTrace == SelectSeq(trace, IsEngineCall)

\* the identifier as MakeConcolicBuffer stores it: the first 255 bytes
Stored(id) == Take(id, ObjNameSize - 1)

InText == InSequence /\ call.target.kind \in {"str", "unicode"}

\* the engine calls of a successful string / unicode marking: the value
\* registration under valueId first; with max >= 0 the registration of the
\* result's length field under sizeId and then assumptions only; with
\* max < 0 nothing more
TextSequence(valueId, sizeId) ==
    LET eng  == EngineTrace
        unit == IF call.target.kind = "str" THEN 1 ELSE sizeof_Py_UNICODE
    IN  /\ Len(eng) >= 1
        /\ eng[1].ev = "s2e_make_concolic"
        /\ eng[1].id = valueId
        /\ eng[1].size = call.target.ob_size * unit
        /\ eng[1].buf = (IF call.target.kind = "str" THEN "str_data" ELSE "uni_data")
        /\ IF call.max >= 0
           THEN /\ Len(eng) >= 3
                /\ eng[2].ev = "s2e_make_concolic"
                /\ eng[2].id = sizeId
                /\ eng[2].buf = "result.ob_size"
                /\ \A k \in 3..Len(eng) : eng[k].ev = "s2e_assume"
           ELSE Len(eng) = 1

\* ---- C13 ----
\* C13: a successful string / unicode marking registers the value once under
\* "<name>.s#value" (resp. "<name>.u#value") with length (resp. length * W)
\* bytes first; with max >= 0 it then registers the new object's length
\* field under "<name>.l#size" and then issues the size constraints; with
\* max < 0 it issues no other engine call.
C13_TextCallSequence ==
    (InText /\ ret.status = "object")
        => TextSequence(
               FullName(call.name, IF call.target.kind = "str" THEN "s" ELSE "u",
                        sValue),
               FullName(call.name, "l", sSize))

\* C13, the part the code keeps: the same sequence, each identifier being
\* the first 255 bytes of the full string.
C13_TextCallSequenceAsStored ==
    (InText /\ ret.status = "object")
        => TextSequence(
               Stored(FullName(call.name,
                               IF call.target.kind = "str" THEN "s" ELSE "u",
                               sValue)),
               Stored(FullName(call.name, "l", sSize)))

\* the engine calls of a successful integer marking with the range enabled:
\* the registration under valueId, assume(v >= min), assume(v <= max)
IntSequence(valueId) ==
    LET v == call.target.ob_ival IN
    /\ EngineTrace = << s2e_make_concolic("value", sizeof_long, valueId),
                        s2e_assume("value", v, ">=", call.min),
                        s2e_assume("value", v, "<=", call.max) >>
    /\ ret.obj.kind = "int"
    /\ ret.obj.ob_ival = v

InIntRange ==
    /\ InInt
    /\ ret.status = "object"
    /\ call.min <= call.target.ob_ival
    /\ call.target.ob_ival <= call.max

\* ---- C14 ----
\* C14: a successful integer marking with min <= value <= max registers the
\* integer under "<name>.i#value" first, then issues assume(v >= min), then
\* assume(v <= max), and returns an integer equal to the input value.
C14_IntCallSequence ==
    InIntRange => IntSequence(FullName(call.name, "i", sValue))

\* C14, the part the code keeps: the same sequence, the identifier being the
\* first 255 bytes of "<name>.i#value".
C14_IntCallSequenceAsStored ==
    InIntRange => IntSequence(Stored(FullName(call.name, "i", sValue)))

InList == InSequence /\ call.target.kind = "list"

\* the engine calls of a successful list marking: none with max < 0; with
\* max >= 0 the registration of the length field under sizeId, then
\* assumptions on that field only
ListSequence(sizeId) ==
    LET eng == EngineTrace IN
    IF call.max >= 0
    THEN /\ Len(eng) >= 2
         /\ eng[1] = s2e_make_concolic("target.ob_size", sizeof_long, sizeId)
         /\ \A k \in 2..Len(eng) :
               /\ eng[k].ev = "s2e_assume"
               /\ eng[k].buf = "target.ob_size"
               /\ eng[k].lhs = call.target.ob_size
    ELSE eng = << >>

\* ---- C15 ----
\* C15: a successful list marking never registers a "value" identifier or
\* element content; with max >= 0 it registers the list's length field
\* under "<name>.l#size" and then constrains it; with max < 0 it issues no
\* engine call at all.
C15_ListTracksCountOnly ==
    (InList /\ ret.status = "object")
        => ListSequence(FullName(call.name, "l", sSize))

\* C15, the part the code keeps: the same, the identifier being the first
\* 255 bytes of "<name>.l#size".
C15_ListTracksCountOnlyAsStored ==
    (InList /\ ret.status = "object")
        => ListSequence(Stored(FullName(call.name, "l", sSize)))

InCheck == policy.fn = "CheckObjectSize"
InConstrain == policy.fn = "ConstrainObjectSize"

\* ---- C17 ----
\* C17: for every size, every max and every min >= 0, CheckObjectSize
\* accepts (returns 0; it returns -1 otherwise) exactly when max < 0, or
\* max = 0 and size >= min, or max > 0 and min <= size <= max.
C17_TriStateCheck ==
    (InCheck /\ policy.min >= 0)
        => /\ ~policy.check.aborted
           /\ policy.check.value \in {0, -1}
           /\ (policy.check.value = 0)
                <=> \/ policy.max < 0
                    \/ policy.max = 0 /\ policy.size >= policy.min
                    \/ /\ policy.max > 0
                       /\ policy.min <= policy.size
                       /\ policy.size <= policy.max

C17_Witness ==
    /\ InCheck
    /\ policy.max = 0
    /\ policy.min = 1
    /\ policy.size = 2
    /\ policy.check.value = 0

\* number of entries of the sequence tr equal to e
Count(tr, e) == Cardinality({ k \in DOMAIN tr : tr[k] = e })

\* ---- C18 ----
\* C18: for every size, max and min >= 0, ConstrainObjectSize issues
\* assume(size >= min) exactly once, assume(size <= max) exactly once when
\* max > 0 and not at all otherwise, and no other assumption.
C18_ConstraintSet ==
    (InConstrain /\ policy.min >= 0)
        => LET tr    == policy.constrain
               lower == s2e_assume("size", policy.size, ">=", policy.min)
               upper == s2e_assume("size", policy.size, "<=", policy.max)
           IN  /\ Count(tr, lower) = 1
               /\ Count(tr, upper) = (IF policy.max > 0 THEN 1 ELSE 0)
               /\ \A k \in DOMAIN tr : tr[k] \in {lower, upper}
               /\ Len(tr) = (IF policy.max > 0 THEN 2 ELSE 1)

C18_Witness ==
    /\ InConstrain
    /\ policy.max = 0
    /\ policy.min = 0
    /\ policy.size = 1
    /\ policy.constrain = << s2e_assume("size", 1, ">=", 0) >>

\* the identifier has a '.', and what follows the last one is "<c>#<q>" with
\* c not a kind tag and q not empty
UnknownTag ==
    /\ InDecode
    /\ "." \in Range(obj_name)
    /\ Len(Remainder(obj_name)) > 2
    /\ Remainder(obj_name)[2] = "#"
    /\ Remainder(obj_name)[1] \notin Tags

\* ---- C19 ----
\* C19 as stated: decoding an identifier whose remainder is "<c>#<qualifier>"
\* with c outside {i, l, s, u, b} always ends in an assertion failure, never
\* in an ordinary error return, and the tree is as it was before the call.
C19_UnknownTagFatal ==
    UnknownTag
        => /\ decodeRet.status = "assert"
           /\ assgndict = codecIn.tree

\* C19 amended: such a decode ends in an assertion failure unless the host
\* fails to allocate the key or qualifier string, which happens before the
\* tag is looked at and makes DecodeAssignment return -1; in both cases no
\* value is stored and the tree is as it was before the call.
C19_UnknownTagFatalUnlessKeyFails ==
    UnknownTag
        => /\ decoded = DecodeOk(SubSeq(obj_name, 1, LastDot(obj_name) - 1),
                                 SubSeq(Remainder(obj_name), 3,
                                        Len(Remainder(obj_name))),
                                 Remainder(obj_name)[1])
           /\ decodeRet.status = (IF codecIn.fail = "key" THEN "-1" ELSE "assert")
           /\ assgndict = codecIn.tree

C19_Witness ==
    /\ InDecode
    /\ obj_name = <<".", "a", "#", "i">>
    /\ codecIn.fail = "none"
    /\ codecIn.value_buff = <<7, 0, 0, 0>>
    /\ decoded.assgn_type = "a"
    /\ decodeRet.status = "assert"
    /\ assgndict = StartTree

\* ---- C20 ----
\* C20: an identifier without '.' decodes to key = the whole identifier, an
\* empty qualifier and the tag 'b'; DecodeAssignment then returns 0 unless a
\* host allocation fails, and when it returns 0 the tree holds the raw bytes,
\* unchanged, as a byte array at tree[identifier][""], every other entry
\* being as before.
C20_NoDotIsByteArray ==
    (InDecode /\ "." \notin Range(obj_name))
        => /\ decoded = DecodeOk(obj_name, << >>, "b")
           /\ codecIn.fail = "none" => decodeRet.status = "0"
           /\ decodeRet.status = "0"
                => /\ DOMAIN assgndict = DOMAIN codecIn.tree \cup {obj_name}
                   /\ assgndict[obj_name][<< >>]
                        = Typed("bytearray", 0, codecIn.value_buff)
                   /\ \A k \in DOMAIN codecIn.tree :
                        \A q \in DOMAIN codecIn.tree[k] :
                            (k # obj_name \/ q # << >>)
                                => assgndict[k][q] = codecIn.tree[k][q]

C20_Witness ==
    /\ InDecode
    /\ obj_name = <<"a">>
    /\ codecIn.fail = "none"
    /\ codecIn.value_buff = <<1, 2, 3>>
    /\ decodeRet.status = "0"
    /\ DOMAIN assgndict[<<"a">>] = {<< >>, <<"x">>}
    /\ assgndict[<<"a">>][<< >>] = Typed("bytearray", 0, <<1, 2, 3>>)

\* ---- C21 ----
\* C21 as stated: CheckObjectSize(size, -1, m) returns success for every
\* size >= 0 and every m, negative m included, without failing an assertion.
C21_FixedAcceptsAnyMin ==
    (InCheck /\ policy.max = -1)
        => /\ ~policy.check.aborted
           /\ policy.check.value = 0

\* C21 amended: CheckObjectSize(size, -1, m) returns success for every
\* size >= 0 and every m >= 0, whatever m is compared to size; with m < 0
\* assert(min_size >= 0) fails before max_size is looked at.
C21_FixedAcceptsAnyNonNegativeMin ==
    (InCheck /\ policy.max = -1)
        => IF policy.min >= 0
           THEN /\ ~policy.check.aborted
                /\ policy.check.value = 0
           ELSE policy.check.aborted

C21_Witness ==
    /\ InCheck
    /\ policy.max = -1
    /\ policy.min = 2
    /\ policy.size = 0
    /\ ~policy.check.aborted
    /\ policy.check.value = 0

\* ---- C22 ----
\* C22: every assumption a marking operation hands to the engine is true of
\* the concrete value at the moment it is issued, for every session setting
\* of max_symbolic_size_ and every input; in particular no dict or tuple
\* with max_symbolic_size_ or more elements has assume(count <
\* max_symbolic_size_) issued on it.
C22_AssumptionsHold ==
    \A i \in Assumes : Holds(trace[i])

\* C22, the part the code keeps: the assumptions of the integer, string,
\* unicode and list markings, and assume(count >= 0) of the dict and tuple
\* markings, are true of the concrete value.
C22_AssumptionsHoldButCountLimit ==
    \A i \in Assumes :
        \/ Holds(trace[i])
        \/ /\ InSequence
           /\ call.target.kind \in {"dict", "tuple"}
           /\ trace[i] = s2e_assume(trace[i].buf, call.target.ob_size, "<",
                                    max_symbolic_size_)
           /\ call.target.ob_size >= max_symbolic_size_

InReplay == codecIn.fn = "Replay"

\* the qualifier the marker gave the replayed registration
RegQualifier == IF codecIn.reg.buf \in {"value", "str_data", "uni_data"}
                THEN sValue ELSE sSize

\* the concrete value the replayed registration covered, as the decoder
\* holds values
RegValue ==
    CASE codecIn.reg.buf = "value"    -> Typed("int", call.target.ob_ival, << >>)
      [] codecIn.reg.buf = "str_data" -> Typed("str", 0, call.target.data)
      [] codecIn.reg.buf = "uni_data" ->
            Typed("unicode", 0,
                  [k \in 1..call.target.ob_size |-> UnitBytes(call.target.data[k])])
      [] OTHER -> Typed("int", call.target.ob_size, << >>)

\* DecodeAssignment accepted the bytes and the tree holds the original value
\* at tree[name][qualifier]
ReplayRestores ==
    /\ decodeRet.status = "0"
    /\ call.name \in DOMAIN assgndict
    /\ RegQualifier \in DOMAIN assgndict[call.name]
    /\ assgndict[call.name][RegQualifier] = RegValue

\* ---- C23 ----
\* C23: for every buffer a marking operation registers under an identifier
\* with tag T and byte size n, DecodeAssignment on that identifier and the n
\* bytes of the buffer passes the content-size check for T and stores the
\* original concrete value at tree[name][qualifier]; the integer of
\* MakeConcolicInt has the 4 bytes 'i' requires, the size fields the
\* width 'l' requires.
C23_WidthsAgree ==
    InReplay => ReplayRestores

\* C23, the part the code keeps: the round trip holds for every string,
\* unicode and size registration, and for the integer where long has 4
\* bytes, whenever the identifier fits obj_name; where long has 8 bytes the
\* integer's registration fails the decoder's size check for 'i'.
C23_WidthsAgreeButLong ==
    (InReplay /\ Len(FullName(call.name, "l", sValue)) <= ObjNameSize - 1)
        => IF codecIn.reg.buf = "value" /\ sizeof_long # SizeofInt32
           THEN /\ decodeRet.status = "assert"
                /\ assgndict = EmptyDict
           ELSE ReplayRestores

\* positions of the trace where the host call ev was made
HostCalls(ev) == { i \in DOMAIN trace : trace[i].ev = ev }

\* positions where the result object was constructed, or failed to be
Constructions ==
    HostCalls("PyString_FromStringAndSize")
    \cup HostCalls("PyString_FromStringAndSize failed")
    \cup HostCalls("PyUnicode_FromUnicode")
    \cup HostCalls("PyUnicode_FromUnicode failed")

\* ---- C24 ----
\* C24: in a string or unicode marking, once the private buffer has been
\* allocated it is released exactly once on every exit path (success, or
\* failure to construct the result), and never before the value
\* registration and the construction of the result from it; when the
\* allocation fails the call returns MemoryError with no engine call and
\* nothing released; without an allocation nothing is released.
C24_BufferLifetime ==
    InText
        => /\ HostCalls("PyMem_Malloc") # {}
                => /\ ret.status \in {"object", "NULL"}
                   /\ Cardinality(HostCalls("PyMem_Malloc")) = 1
                   /\ Cardinality(HostCalls("PyMem_Free")) = 1
                   /\ Cardinality(Constructions) = 1
                   /\ \A m \in HostCalls("PyMem_Malloc"), f \in HostCalls("PyMem_Free") :
                        /\ trace[f].buf = trace[m].buf
                        /\ \E r \in Registrations, c \in Constructions :
                              /\ m < r /\ r < c /\ c < f
                              /\ trace[r].buf = trace[m].buf
                              /\ trace[c].buf = trace[m].buf
           /\ HostCalls("PyMem_Malloc failed") # {}
                => /\ ret = Raised("MemoryError", "")
                   /\ EngineCalls = {}
                   /\ HostCalls("PyMem_Free") = {}
           /\ HostCalls("PyMem_Malloc") = {} => HostCalls("PyMem_Free") = {}

C24_Witness ==
    /\ InText
    /\ call.target.kind = "unicode"
    /\ call.target.ob_size = 1
    /\ ret = Raised("MemoryError", "")
    /\ HostCalls("PyMem_Malloc") # {}
    /\ HostCalls("PyUnicode_FromUnicode failed") # {}
    /\ Cardinality(HostCalls("PyMem_Free")) = 1

====
